---- MODULE Spec2Model ----
(***************************************************************************)
(* A model of llm-chain's conversational agent                             *)
(* (crates/llm-chain/src/agents/conversational.rs) and of the Toolbox      *)
(* registry (crates/llm-chain/src/tools/description.rs).                   *)
(*                                                                         *)
(* A text (a Rust String) is a sequence of characters; a character is a    *)
(* one-element name with a UTF-8 width.  str::find and String::len count   *)
(* bytes, chars().skip/take count characters, as in Rust.                  *)
(***************************************************************************)
EXTENDS Integers, Sequences, FiniteSets, TLC

VARIABLES
    \* ---- the build
    overflow_checks,    \* TRUE = arithmetic overflow panics (debug build)
    \* ---- ConversationalOutputParser::parse, applied to one text
    text,               \* the text handed to parse
    ppc,                \* "input" | "parsed" ("off" outside ParserSpec)
    decision,           \* what parse returned
    \* ---- one Agent::run
    max_iterations,            \* early_stopping_config.max_iterations
    max_time_elapsed_seconds,  \* early_stopping_config.max_time_elapsed_seconds
    rpc,                \* where run stands: "loop" | "await_llm" | "await_tool" | "done"
    iterations,         \* run's local `iterations`
    full_duration,      \* run's local `full_duration`, in seconds
    clock,              \* seconds since `start`
    intermediate_steps, \* run's local transcript
    scratchpad,         \* the scratchpad of the last prompt built by plan
    action,             \* the Action whose tool invocation is awaited
    outcome,            \* what run returned
    plan_calls,         \* history: calls of plan made by this run
    llm_calls,          \* history: executor.execute calls made by this run
    tool_calls,         \* history: tools.invoke calls made by this run
    round_log,          \* history: per executor call, its response, what
                        \* parse made of it, and the result of the tool
                        \* invocation that followed
    \* ---- one Toolbox
    tools,              \* Toolbox.tools: the HashMap from key to tool
    tpc,                \* "idle" | "in_call" | "panicked" ("off" outside ToolboxSpec)
    invoked,            \* the arguments of the last invoke, None after an add_tool
    invoke_result,      \* what the last invoke returned
    added,              \* history: the tools handed to add_tool, in order
    tool_call_log,      \* history: the calls of Tool::call made, in order
    \* ---- one HandlerService and the calls of Tool::call on it
    service,            \* the HandlerService: handler, state, descriptions
    calls               \* per call: where it stands, its locals and its history

parser_vars == <<text, ppc, decision>>

config_vars == <<max_iterations, max_time_elapsed_seconds>>

run_vars == <<rpc, iterations, full_duration, clock, intermediate_steps,
              scratchpad, action, outcome, plan_calls, llm_calls, tool_calls,
              round_log>>

toolbox_vars == <<tools, tpc, invoked, invoke_result, added, tool_call_log>>

handler_vars == <<service, calls>>

vars == <<overflow_checks, parser_vars, config_vars, run_vars, toolbox_vars,
          handler_vars>>

(***************************************************************************)
(* Bounds                                                                  *)
(***************************************************************************)
\* the texts handed to parse are made of at most MaxTokens pieces
MaxTokens == 4

\* the largest max_iterations an agent is configured with
MaxIterations == 2

\* a run is followed for at most MaxRounds planning rounds
MaxRounds == 3

\* a run is followed for at most MaxClock seconds
MaxClock == 2

\* a Toolbox is followed for at most MaxAdds add_tool calls
MaxAdds == 3

\* a handler has at most MaxArgs extractable arguments
MaxArgs == 2

\* at most MaxCalls calls of Tool::call run on one service at a time
MaxCalls == 2

(***************************************************************************)
(* Characters and strings                                                  *)
(***************************************************************************)
\* a character outside ASCII: two bytes in UTF-8, one char
Eacute == "U+00E9"

\* char::len_utf8
Utf8Len(c) == IF c = Eacute THEN 2 ELSE 1

\* char::is_whitespace, for the characters of the model
IsWhitespace(c) == c \in {" ", "\n"}

RECURSIVE ByteLen(_)
\* String::len: the length in bytes
ByteLen(s) == IF s = <<>> THEN 0 ELSE Utf8Len(Head(s)) + ByteLen(Tail(s))

Min(a, b) == IF a <= b THEN a ELSE b

\* Iterator::take on chars(): the first n characters (all when there are fewer)
TakeChars(s, n) == SubSeq(s, 1, Min(n, Len(s)))

\* Iterator::skip on chars(): all but the first n characters
SkipChars(s, n) == SubSeq(s, Min(n, Len(s)) + 1, Len(s))

RECURSIVE TrimStart(_)
TrimStart(s) ==
    IF s # <<>> /\ IsWhitespace(Head(s)) THEN TrimStart(Tail(s)) ELSE s

RECURSIVE TrimEnd(_)
TrimEnd(s) ==
    IF s # <<>> /\ IsWhitespace(s[Len(s)])
    THEN TrimEnd(SubSeq(s, 1, Len(s) - 1))
    ELSE s

\* str::trim
Trim(s) == TrimEnd(TrimStart(s))

\* Option::None of an index
NoIdx == -1

\* pat stands in s at character position i (1-based)
MatchAt(s, pat, i) ==
    /\ i + Len(pat) - 1 <= Len(s)
    /\ \A k \in 1..Len(pat) : s[i + k - 1] = pat[k]

\* str::find: the BYTE offset of the first occurrence of pat in s, or None
Find(s, pat) ==
    LET hits == {i \in 1..(Len(s) + 1) : MatchAt(s, pat, i)}
    IN  IF hits = {} THEN NoIdx
        ELSE LET i == CHOOSE j \in hits : \A h \in hits : j <= h
             IN  ByteLen(SubSeq(s, 1, i - 1))

(***************************************************************************)
(* ConversationalOutputParser                                              *)
(***************************************************************************)
\* "Follow up:"
followup_prefix == <<"F","o","l","l","o","w"," ","u","p",":">>

\* "Intermediate Answer:"
intermediate_answer_prefix ==
    <<"I","n","t","e","r","m","e","d","i","a","t","e"," ",
      "A","n","s","w","e","r",":">>

\* "Final answer:", "So the final answer is:", "So the final answer could be:"
acceptable_finish_prefixes ==
    << <<"F","i","n","a","l"," ","a","n","s","w","e","r",":">>,
       <<"S","o"," ","t","h","e"," ","f","i","n","a","l"," ",
         "a","n","s","w","e","r"," ","i","s",":">>,
       <<"S","o"," ","t","h","e"," ","f","i","n","a","l"," ",
         "a","n","s","w","e","r"," ","c","o","u","l","d"," ","b","e",":">> >>

\* the fixed tool name of every parsed Action: "Intermediate Answer"
IntermediateAnswerTool ==
    <<"I","n","t","e","r","m","e","d","i","a","t","e"," ",
      "A","n","s","w","e","r">>

\* usize::MAX + 1.  Only its exceeding every text length matters (a wrapped
\* count makes take() take everything); it is cut to what TLC's integers hold.
UsizeModulus == 1073741824

\* a - b on usize in a build without overflow checks
WrappingSub(a, b) == (a - b) % UsizeModulus

AgentAction(tool_input, log) ==
    [kind |-> "Action", tool |-> IntermediateAnswerTool,
     tool_input |-> tool_input, log |-> log]

AgentFinish(output, log) == [kind |-> "Finish", output |-> output, log |-> log]

ParserError(t) == [kind |-> "ParserError", text |-> t]

\* the thread panicked: parse returned nothing
Panicked == [kind |-> "Panic"]

\* the follow-up branch of parse, with both markers found
ParseFollowup(t, followup_idx, intermediate_answer_idx, checks) ==
    LET from == followup_idx + ByteLen(followup_prefix)
    IN  IF intermediate_answer_idx < from /\ checks
        THEN Panicked    \* attempt to subtract with overflow
        ELSE AgentAction(
                 Trim(TakeChars(SkipChars(t, from),
                                WrappingSub(intermediate_answer_idx, from))),
                 TakeChars(t, intermediate_answer_idx))

\* a bug FindFinishPrefix could have: the prefix that stands earliest in the
\* text is taken, not the first of the list that occurs
FindFinishPrefixEarliest(t) ==
    LET found == {k \in 1..Len(acceptable_finish_prefixes) :
                     Find(t, acceptable_finish_prefixes[k]) # NoIdx}
    IN  IF found = {} THEN <<NoIdx, 0>>
        ELSE LET k == CHOOSE j \in found : \A h \in found :
                          Find(t, acceptable_finish_prefixes[j])
                              <= Find(t, acceptable_finish_prefixes[h])
             IN  <<Find(t, acceptable_finish_prefixes[k]), k>>

\* find_map over the finish prefixes: the first prefix, in list order, that
\* occurs in the text, with the byte offset of its first occurrence
FindFinishPrefix(t) ==
    LET found == {k \in 1..Len(acceptable_finish_prefixes) :
                     Find(t, acceptable_finish_prefixes[k]) # NoIdx}
    IN  IF found = {} THEN <<NoIdx, 0>>
        ELSE LET k == CHOOSE j \in found : \A h \in found : j <= h
             IN  <<Find(t, acceptable_finish_prefixes[k]), k>>

\* ConversationalOutputParser::parse
Parse(t, checks) ==
    LET followup_idx == Find(t, followup_prefix)
        intermediate_answer_idx == Find(t, intermediate_answer_prefix)
        fin == FindFinishPrefix(t)
    IN  IF followup_idx # NoIdx
        THEN IF intermediate_answer_idx # NoIdx
             THEN ParseFollowup(t, followup_idx, intermediate_answer_idx, checks)
             ELSE ParserError(t)
        ELSE IF fin[1] # NoIdx
             THEN AgentFinish(
                      Trim(SkipChars(t, fin[1]
                               + ByteLen(acceptable_finish_prefixes[fin[2]]))),
                      t)
             ELSE ParserError(t)

(***************************************************************************)
(* The texts parse is applied to                                           *)
(***************************************************************************)
\* the pieces a text is made of: the markers and single characters
Tokens ==
    {followup_prefix, intermediate_answer_prefix}
    \cup {acceptable_finish_prefixes[k] : k \in 1..Len(acceptable_finish_prefixes)}
    \cup {<<"x">>, <<" ">>, <<Eacute>>}

RECURSIVE Flatten(_)
Flatten(ts) == IF ts = <<>> THEN <<>> ELSE Head(ts) \o Flatten(Tail(ts))

TokenSeqs == UNION {[1..n -> Tokens] : n \in 0..MaxTokens}

Texts == {Flatten(ts) : ts \in TokenSeqs}

NoDecision == [kind |-> "None"]

\* Option<T>
None == [some |-> FALSE]

Some(v) == [some |-> TRUE, v |-> v]

NoOutcome == [kind |-> "None"]

\* the state of an agent that is not running
AgentIdle ==
    /\ max_iterations = None
    /\ max_time_elapsed_seconds = None
    /\ rpc = "off"
    /\ iterations = 0
    /\ full_duration = 0
    /\ clock = 0
    /\ intermediate_steps = <<>>
    /\ scratchpad = <<>>
    /\ action = NoDecision
    /\ outcome = NoOutcome
    /\ plan_calls = 0
    /\ llm_calls = 0
    /\ tool_calls = 0
    /\ round_log = <<>>

\* a function with no argument: the empty HashMap
EmptyMap == [k \in {} |-> k]

\* the state of a Toolbox that is not used
ToolboxIdle ==
    /\ tools = EmptyMap
    /\ tpc = "off"
    /\ invoked = None
    /\ invoke_result = NoOutcome
    /\ added = <<>>
    /\ tool_call_log = <<>>

\* no HandlerService
HandlerIdle ==
    /\ service = [kind |-> "None"]
    /\ calls = <<>>

ParserInit ==
    /\ text \in Texts
    /\ overflow_checks \in BOOLEAN
    /\ ppc = "input"
    /\ decision = NoDecision
    /\ AgentIdle
    /\ ToolboxIdle
    /\ HandlerIdle

\* one call of parse on the text
DoParse ==
    /\ ppc = "input"
    /\ decision' = Parse(text, overflow_checks)
    /\ ppc' = "parsed"
    /\ UNCHANGED <<text, overflow_checks, config_vars, run_vars, toolbox_vars,
                   handler_vars>>

ParserNext == DoParse

ParserSpec == ParserInit /\ [][ParserNext]_vars

(***************************************************************************)
(* Claims about ConversationalOutputParser::parse (under ParserSpec)       *)
(***************************************************************************)
\* pat occurs in t
Contains(t, pat) == \E i \in 1..(Len(t) + 1) : MatchAt(t, pat, i)

\* the character position (1-based) of the first occurrence of pat in t
FirstPos(t, pat) ==
    CHOOSE i \in 1..(Len(t) + 1) :
        MatchAt(t, pat, i) /\ \A j \in 1..(i - 1) : ~MatchAt(t, pat, j)

\* the text after the first occurrence of pat in t
TextAfter(t, pat) == SubSeq(t, FirstPos(t, pat) + Len(pat), Len(t))

\* the text before the first occurrence of pat in t
TextBefore(t, pat) == SubSeq(t, 1, FirstPos(t, pat) - 1)

FinishIdxs == 1..Len(acceptable_finish_prefixes)

\* the finish markers that occur in t
FinishPresent(t) ==
    {k \in FinishIdxs : Contains(t, acceptable_finish_prefixes[k])}

IsAscii(t) == \A i \in 1..Len(t) : Utf8Len(t[i]) = 1

\* C2: every text that holds the follow-up marker, the intermediate-answer
\* marker and a finish marker parses to an Action, never to a Finish.
C2_ParserPrecedence ==
    (/\ ppc = "parsed"
     /\ Contains(text, followup_prefix)
     /\ Contains(text, intermediate_answer_prefix)
     /\ FinishPresent(text) # {})
    => decision.kind = "Action"

\* C3: with the follow-up and the intermediate-answer marker in the text, parse
\* returns an Action for the tool "Intermediate Answer" whose tool_input is the
\* trimmed text between the end of the follow-up marker and the start of the
\* intermediate-answer marker, and whose log is the text before the
\* intermediate-answer marker.
C3_ActionContent ==
    (/\ ppc = "parsed"
     /\ Contains(text, followup_prefix)
     /\ Contains(text, intermediate_answer_prefix))
    => /\ decision.kind = "Action"
       /\ decision.tool = IntermediateAnswerTool
       /\ decision.tool_input =
              Trim(SubSeq(text,
                          FirstPos(text, followup_prefix) + Len(followup_prefix),
                          FirstPos(text, intermediate_answer_prefix) - 1))
       /\ decision.log = TextBefore(text, intermediate_answer_prefix)

\* the two cases in which C4 says parse fails
C4_FailureCase(t) ==
    \/ Contains(t, followup_prefix) /\ ~Contains(t, intermediate_answer_prefix)
    \/ ~Contains(t, followup_prefix) /\ FinishPresent(t) = {}

\* C4: parse fails with a ParserError carrying the unmodified text exactly
\* when the follow-up marker stands without the intermediate-answer marker or
\* when neither the follow-up marker nor a finish marker is present; in every
\* other case it returns an Action or a Finish.
C4_ParserFailure ==
    ppc = "parsed"
    => IF C4_FailureCase(text)
       THEN decision = ParserError(text)
       ELSE decision.kind \in {"Action", "Finish"}

\* C5: a text with no follow-up marker that holds a finish marker parses to a
\* Finish whose output is the trimmed text after that marker and whose log is
\* the whole text.
C5_FinishExtraction ==
    (/\ ppc = "parsed"
     /\ ~Contains(text, followup_prefix)
     /\ FinishPresent(text) # {})
    => /\ decision.kind = "Finish"
       /\ decision.log = text
       /\ \E k \in FinishPresent(text) :
              decision.output = Trim(TextAfter(text, acceptable_finish_prefixes[k]))

\* the finish marker whose first occurrence stands earliest in t
EarliestFinish(t) ==
    CHOOSE k \in FinishPresent(t) :
        \A h \in FinishPresent(t) :
            FirstPos(t, acceptable_finish_prefixes[k])
                <= FirstPos(t, acceptable_finish_prefixes[h])

\* the first finish marker, in priority order, that occurs in t
PriorityFinish(t) ==
    CHOOSE k \in FinishPresent(t) : \A h \in FinishPresent(t) : k <= h

\* two or more of the finish markers occur in a text without follow-up marker
C6_Case ==
    /\ ppc = "parsed"
    /\ ~Contains(text, followup_prefix)
    /\ Cardinality(FinishPresent(text)) >= 2

observation_prefix ==
    <<"I","n","t","e","r","m","e","d","i","a","t","e"," ",
      "a","n","s","w","e","r",":"," ">>

\* Agent::new: llm_prefix = ""
llm_prefix == <<>>

\* an observation is a value that may or may not hold a string
StringValue(str) == [is_str |-> TRUE, str |-> str]

\* a value that is no string (a number, a mapping, ...)
OtherValue == [is_str |-> FALSE]

\* observation.as_str()
as_str(v) == IF v.is_str THEN Some(v.str) ELSE None

\* Option::unwrap_or_default on an Option<&str>
unwrap_or_default(o) == IF o.some THEN o.v ELSE <<>>

\* a bug should_continue could have: an unset bound counts as the bound 0
should_continue_unset_is_zero(iterations_elapsed, time_elapsed_seconds) ==
    /\ (IF max_iterations.some THEN max_iterations.v ELSE 0)
           >= iterations_elapsed
    /\ (IF max_time_elapsed_seconds.some THEN max_time_elapsed_seconds.v
        ELSE 0) >= time_elapsed_seconds

\* Agent::should_continue
should_continue(iterations_elapsed, time_elapsed_seconds) ==
    CASE ~max_iterations.some /\ ~max_time_elapsed_seconds.some -> TRUE
      [] ~max_iterations.some /\ max_time_elapsed_seconds.some ->
             max_time_elapsed_seconds.v >= time_elapsed_seconds
      [] max_iterations.some /\ ~max_time_elapsed_seconds.some ->
             max_iterations.v >= iterations_elapsed
      [] max_iterations.some /\ max_time_elapsed_seconds.some ->
             /\ max_iterations.v >= iterations_elapsed
             /\ max_time_elapsed_seconds.v >= time_elapsed_seconds

\* a bug build_agent_scratchpad could have: the text is reset for every step
build_agent_scratchpad_reset(steps) ==
    IF steps = <<>> THEN <<>>
    ELSE steps[Len(steps)].action.log
             \o <<"\n">> \o observation_prefix
             \o unwrap_or_default(as_str(steps[Len(steps)].observation))
             \o <<"\n">> \o llm_prefix

RECURSIVE ScratchpadLoop(_, _, _)
\* the for loop of build_agent_scratchpad, from step i on, scratchpad so far acc
ScratchpadLoop(steps, i, acc) ==
    IF i > Len(steps) THEN acc
    ELSE ScratchpadLoop(steps, i + 1,
             (acc \o steps[i].action.log)
                 \o (<<"\n">> \o observation_prefix
                     \o unwrap_or_default(as_str(steps[i].observation))
                     \o <<"\n">> \o llm_prefix))

\* Agent::build_agent_scratchpad
build_agent_scratchpad(steps) == ScratchpadLoop(steps, 1, <<>>)

\* what the text-generation capability can answer a prompt with
ActionText ==
    followup_prefix \o <<" ", "x", " ">> \o intermediate_answer_prefix

ActionTextMultibyte ==
    <<Eacute>> \o followup_prefix \o <<"x">> \o intermediate_answer_prefix

FinishText == acceptable_finish_prefixes[2] \o <<" ", "x">>

MalformedText == <<"x">>

OverflowText == intermediate_answer_prefix \o followup_prefix

LLMTexts ==
    {ActionText, ActionTextMultibyte, FinishText, MalformedText, OverflowText}

\* executor.execute / to_immediate failed, the completion has no body, or it
\* has the body t
LLMResponses ==
    {[kind |-> "ExecutorError"], [kind |-> "NoBody"]}
    \cup {[kind |-> "Body", text |-> t] : t \in LLMTexts}

\* ToolCollection::invoke: the observation of the named tool, or an error
\* (no tool of that name, or the tool failed)
ToolInvokeResults ==
    {[ok |-> FALSE]}
    \cup {[ok |-> TRUE, observation |-> v] :
              v \in {StringValue(<<"P">>), OtherValue}}

MaxIterationsValues == {None} \cup {Some(n) : n \in 0..MaxIterations}

\* a time bound inside the followed time, and one far from reached
FarTime == MaxClock + 1000

MaxTimeValues == {None, Some(1), Some(FarTime)}

\* a bug push could have: the step is put in front of the transcript
push_front(steps, step) == <<step>> \o steps

\* Vec::push
push(steps, step) == Append(steps, step)

Init ==
    /\ overflow_checks \in BOOLEAN
    /\ text = <<>>
    /\ ppc = "off"
    /\ decision = NoDecision
    /\ max_iterations \in MaxIterationsValues
    /\ max_time_elapsed_seconds \in MaxTimeValues
    /\ rpc = "loop"
    /\ iterations = 0
    /\ full_duration = 0
    /\ clock = 0
    /\ intermediate_steps = <<>>
    /\ scratchpad = <<>>
    /\ action = NoDecision
    /\ outcome = NoOutcome
    /\ plan_calls = 0
    /\ llm_calls = 0
    /\ tool_calls = 0
    /\ round_log = <<>>
    /\ ToolboxIdle
    /\ HandlerIdle

\* run returns r
Return(r) ==
    /\ outcome' = r
    /\ rpc' = "done"

\* a bug BeginRound could have: the next round is planned while the tool
\* invocation of the round before is still awaited
BeginRoundEarly ==
    /\ rpc \in {"loop", "await_tool"}
    /\ plan_calls < MaxRounds
    /\ should_continue(iterations, full_duration)
    /\ plan_calls' = plan_calls + 1
    /\ scratchpad' = build_agent_scratchpad(intermediate_steps)
    /\ llm_calls' = llm_calls + 1
    /\ rpc' = "await_llm"
    /\ UNCHANGED <<overflow_checks, round_log, handler_vars, parser_vars,
                   toolbox_vars, config_vars, iterations, full_duration,
                   clock, intermediate_steps, action, outcome, tool_calls>>

\* run: the loop condition holds; take_next_step calls plan, which builds the
\* scratchpad and the prompt and calls the executor
BeginRound ==
    /\ rpc = "loop"
    /\ plan_calls < MaxRounds
    /\ should_continue(iterations, full_duration)
    /\ plan_calls' = plan_calls + 1
    /\ scratchpad' = build_agent_scratchpad(intermediate_steps)
    /\ llm_calls' = llm_calls + 1
    /\ rpc' = "await_llm"
    /\ UNCHANGED <<overflow_checks, round_log, handler_vars, parser_vars, toolbox_vars, config_vars, iterations,
                   full_duration, clock, intermediate_steps, action, outcome,
                   tool_calls>>

\* run: the loop condition holds; plan builds the scratchpad, and describing
\* the tools or filling the prompt template fails: no executor call is made
PromptFails ==
    /\ rpc = "loop"
    /\ plan_calls < MaxRounds
    /\ should_continue(iterations, full_duration)
    /\ plan_calls' = plan_calls + 1
    /\ scratchpad' = build_agent_scratchpad(intermediate_steps)
    /\ Return([kind |-> "PromptError"])
    /\ UNCHANGED <<overflow_checks, round_log, handler_vars, parser_vars, toolbox_vars, config_vars,
                   iterations, full_duration, clock, intermediate_steps,
                   action, llm_calls, tool_calls>>

\* run: the loop condition fails
StopEarly ==
    /\ rpc = "loop"
    /\ ~should_continue(iterations, full_duration)
    /\ Return([kind |-> "RuntimeExceeded",
               time_elapsed_seconds |-> full_duration,
               iterations_elapsed |-> iterations])
    /\ UNCHANGED <<overflow_checks, round_log, handler_vars, parser_vars, toolbox_vars, config_vars, iterations,
                   full_duration, clock, intermediate_steps, scratchpad,
                   action, plan_calls, llm_calls, tool_calls>>

\* a bug PlanFails could have: the failed round is retried
PlanFailsRetries(resp) ==
    /\ rpc = "await_llm"
    /\ resp.kind \in {"ExecutorError", "NoBody"}
    /\ rpc' = "loop"
    /\ round_log' = Append(round_log, [plan |-> resp, tool |-> None,
                                       parsed |-> [kind |-> resp.kind]])
    /\ UNCHANGED <<overflow_checks, handler_vars, parser_vars, toolbox_vars,
                   config_vars, iterations, full_duration, clock,
                   intermediate_steps, scratchpad, action, outcome,
                   plan_calls, llm_calls, tool_calls>>

\* plan: the executor fails, or its completion has no body
PlanFails(resp) ==
    /\ rpc = "await_llm"
    /\ resp.kind \in {"ExecutorError", "NoBody"}
    /\ Return([kind |-> IF resp.kind = "NoBody" THEN "NoChoicesReturned"
                        ELSE "ExecutorError"])
    /\ round_log' = Append(round_log, [plan |-> resp, tool |-> None,
                                       parsed |-> [kind |-> resp.kind]])
    /\ UNCHANGED <<overflow_checks, handler_vars, parser_vars, toolbox_vars, config_vars, iterations,
                   full_duration, clock, intermediate_steps, scratchpad,
                   action, plan_calls, llm_calls, tool_calls>>

\* take_next_step: the plan arrives and does not parse (or parse panics)
PlanDoesNotParse(resp) ==
    /\ rpc = "await_llm"
    /\ resp.kind = "Body"
    /\ LET d == Parse(resp.text, overflow_checks)
       IN  /\ d.kind \in {"ParserError", "Panic"}
           /\ Return(d)
    /\ round_log' = Append(round_log,
                           [plan |-> resp, tool |-> None,
                            parsed |-> Parse(resp.text, overflow_checks)])
    /\ UNCHANGED <<overflow_checks, handler_vars, parser_vars, toolbox_vars, config_vars, iterations,
                   full_duration, clock, intermediate_steps, scratchpad,
                   action, plan_calls, llm_calls, tool_calls>>

\* take_next_step: the plan parses to an Action, its tool is invoked
PlanIsAction(resp) ==
    /\ rpc = "await_llm"
    /\ resp.kind = "Body"
    /\ LET d == Parse(resp.text, overflow_checks)
       IN  /\ d.kind = "Action"
           /\ action' = d
    /\ tool_calls' = tool_calls + 1
    /\ rpc' = "await_tool"
    /\ round_log' = Append(round_log,
                           [plan |-> resp, tool |-> None,
                            parsed |-> Parse(resp.text, overflow_checks)])
    /\ UNCHANGED <<overflow_checks, handler_vars, parser_vars, toolbox_vars, config_vars, iterations,
                   full_duration, clock, intermediate_steps, scratchpad,
                   outcome, plan_calls, llm_calls>>

\* take_next_step: the plan parses to a Finish; run returns it with the transcript
PlanIsFinish(resp) ==
    /\ rpc = "await_llm"
    /\ resp.kind = "Body"
    /\ LET d == Parse(resp.text, overflow_checks)
       IN  /\ d.kind = "Finish"
           /\ Return([kind |-> "Finish", finish |-> d,
                      intermediate_steps |-> intermediate_steps])
    /\ full_duration' = clock
    /\ iterations' = iterations + 1
    /\ round_log' = Append(round_log,
                           [plan |-> resp, tool |-> None,
                            parsed |-> Parse(resp.text, overflow_checks)])
    /\ UNCHANGED <<overflow_checks, handler_vars, parser_vars, toolbox_vars, config_vars, clock,
                   intermediate_steps, scratchpad, action, plan_calls,
                   llm_calls, tool_calls>>

\* take_next_step: the tool invocation fails
ToolFails(r) ==
    /\ rpc = "await_tool"
    /\ ~r.ok
    /\ Return([kind |-> "ToolError"])
    /\ round_log' = [round_log EXCEPT ![Len(round_log)].tool = Some(r)]
    /\ UNCHANGED <<overflow_checks, handler_vars, parser_vars, toolbox_vars, config_vars, iterations,
                   full_duration, clock, intermediate_steps, scratchpad,
                   action, plan_calls, llm_calls, tool_calls>>

\* a bug ToolReturns could have: the round is not counted
ToolReturnsUncounted(r) ==
    /\ rpc = "await_tool"
    /\ r.ok
    /\ full_duration' = clock
    /\ intermediate_steps' =
           push(intermediate_steps,
                [action |-> action, observation |-> r.observation])
    /\ rpc' = "loop"
    /\ round_log' = [round_log EXCEPT ![Len(round_log)].tool = Some(r)]
    /\ UNCHANGED <<overflow_checks, handler_vars, parser_vars, toolbox_vars,
                   config_vars, clock, scratchpad, iterations, action,
                   outcome, plan_calls, llm_calls, tool_calls>>

\* take_next_step returns the step; run counts the round and pushes the step
ToolReturns(r) ==
    /\ rpc = "await_tool"
    /\ r.ok
    /\ full_duration' = clock
    /\ iterations' = iterations + 1
    /\ intermediate_steps' =
           push(intermediate_steps,
                [action |-> action, observation |-> r.observation])
    /\ rpc' = "loop"
    /\ round_log' = [round_log EXCEPT ![Len(round_log)].tool = Some(r)]
    /\ UNCHANGED <<overflow_checks, handler_vars, parser_vars, toolbox_vars, config_vars, clock, scratchpad,
                   action, outcome, plan_calls, llm_calls, tool_calls>>

\* a second passes while the executor or a tool is awaited
Tick ==
    /\ rpc \in {"await_llm", "await_tool"}
    /\ clock < MaxClock
    /\ clock' = clock + 1
    /\ UNCHANGED <<overflow_checks, round_log, handler_vars, parser_vars, toolbox_vars, config_vars, rpc, iterations,
                   full_duration, intermediate_steps, scratchpad, action,
                   outcome, plan_calls, llm_calls, tool_calls>>

Next ==
    \/ BeginRound
    \/ PromptFails
    \/ StopEarly
    \/ \E resp \in LLMResponses : PlanFails(resp)
    \/ \E resp \in LLMResponses : PlanDoesNotParse(resp)
    \/ \E resp \in LLMResponses : PlanIsAction(resp)
    \/ \E resp \in LLMResponses : PlanIsFinish(resp)
    \/ \E r \in ToolInvokeResults : ToolFails(r)
    \/ \E r \in ToolInvokeResults : ToolReturns(r)
    \/ Tick

Spec == Init /\ [][Next]_vars

(***************************************************************************)
(* Claims about Agent::run (under Spec)                                    *)
(***************************************************************************)
\* C1: an agent with max_iterations = N, its time bound far from reached,
\* makes at most N planning rounds, and when it fails with RuntimeExceeded
\* the error's iterations_elapsed is N.
C1_StopsAtMaxIterations ==
    (max_iterations.some /\ max_time_elapsed_seconds = Some(FarTime))
    => /\ plan_calls <= max_iterations.v
       /\ outcome.kind = "RuntimeExceeded"
              => outcome.iterations_elapsed = max_iterations.v

\* the text of an observation: its string, nothing when it holds no string
ObservationText(v) == IF v.is_str THEN v.str ELSE <<>>

\* what one step adds to the scratchpad
ScratchpadPiece(step) ==
    step.action.log \o <<"\n">> \o observation_prefix
        \o ObservationText(step.observation) \o <<"\n">> \o llm_prefix

RECURSIVE ScratchpadOf(_)
\* scratchpad(<<>>) = "" and scratchpad(T ++ [s]) = scratchpad(T) ++ piece(s)
ScratchpadOf(T) ==
    IF T = <<>> THEN <<>>
    ELSE ScratchpadOf(SubSeq(T, 1, Len(T) - 1)) \o ScratchpadPiece(T[Len(T)])

\* C7: the scratchpad built for a round is determined by the transcript: it is
\* empty for the empty transcript, and the scratchpad of a transcript with one
\* more step is the scratchpad of the transcript followed by that step's log,
\* a newline, the observation prefix, the observation's text, a newline and
\* the LLM prefix.
C7_ScratchpadIsConcatenation ==
    (rpc \in {"await_llm", "await_tool"} \/ outcome.kind = "PromptError")
    => scratchpad = ScratchpadOf(intermediate_steps)

\* C7 witness: a scratchpad was built from a transcript of two steps, one with
\* a string as observation and one without
C7_Witness ==
    /\ rpc = "await_llm"
    /\ Len(intermediate_steps) = 2
    /\ intermediate_steps[1].observation = OtherValue
    /\ intermediate_steps[2].observation = StringValue(<<"P">>)
    /\ intermediate_steps[1].action.log # intermediate_steps[2].action.log
    /\ scratchpad # <<>>

(***************************************************************************)
(* Toolbox                                                                 *)
(***************************************************************************)
\* the tools handed to add_tool, each known by its name
ToolNames == {"search", "calc"}

\* the names invoke is called with
InvokeNames == ToolNames \cup {"abc", "X"}

Messages == {"q1", "q2"}

\* what Tool::call of a tool can return
ToolReplies == {[ok |-> TRUE, text |-> "r1"], [ok |-> FALSE, text |-> "e1"]}

\* HashMap::insert
MapInsert(m, k, v) ==
    [x \in DOMAIN m \cup {k} |-> IF x = k THEN v ELSE m[x]]

\* HashMap::get
MapGet(m, k) == IF k \in DOMAIN m THEN Some(m[k]) ELSE None

ToolboxInit ==
    /\ overflow_checks \in BOOLEAN
    /\ text = <<>>
    /\ ppc = "off"
    /\ decision = NoDecision
    /\ AgentIdle
    /\ HandlerIdle
    /\ tools = EmptyMap
    /\ tpc = "idle"
    /\ invoked = None
    /\ invoke_result = NoOutcome
    /\ added = <<>>
    /\ tool_call_log = <<>>

\* Toolbox::add_tool
add_tool(tool) ==
    /\ tpc = "idle"
    /\ Len(added) < MaxAdds
    /\ tools' = MapInsert(tools, "abc", tool)
    /\ added' = Append(added, tool)
    /\ invoked' = None
    /\ invoke_result' = NoOutcome
    /\ UNCHANGED <<overflow_checks, handler_vars, parser_vars, config_vars, run_vars, tpc,
                   tool_call_log>>

\* Toolbox::invoke: no tool under that key
InvokeNotFound(name, message) ==
    /\ tpc = "idle"
    /\ ~MapGet(tools, name).some
    /\ invoked' = Some([name |-> name, message |-> message])
    /\ invoke_result' = [kind |-> "NotFound"]
    /\ UNCHANGED <<overflow_checks, handler_vars, parser_vars, config_vars, run_vars, tools,
                   tpc, added, tool_call_log>>

\* Toolbox::invoke: a tool under that key, whose call is awaited
InvokeCallsTool(name, message) ==
    /\ tpc = "idle"
    /\ MapGet(tools, name).some
    /\ invoked' = Some([name |-> name, message |-> message])
    /\ invoke_result' = NoOutcome
    /\ tool_call_log' =
           Append(tool_call_log,
                  [tool |-> MapGet(tools, name).v, message |-> message,
                   reply |-> None])
    /\ tpc' = "in_call"
    /\ UNCHANGED <<overflow_checks, handler_vars, parser_vars, config_vars, run_vars, tools,
                   added>>

\* Toolbox::invoke: the call returns; both arms of the match are todo!(),
\* which panics
InvokeCallReturns(reply) ==
    /\ tpc = "in_call"
    /\ tool_call_log' =
           [tool_call_log EXCEPT ![Len(tool_call_log)].reply = Some(reply)]
    /\ invoke_result' = Panicked
    /\ tpc' = "panicked"
    /\ UNCHANGED <<overflow_checks, handler_vars, parser_vars, config_vars, run_vars, tools,
                   invoked, added>>

ToolboxNext ==
    \/ \E tool \in ToolNames : add_tool(tool)
    \/ \E name \in InvokeNames, message \in Messages :
           InvokeNotFound(name, message)
    \/ \E name \in InvokeNames, message \in Messages :
           InvokeCallsTool(name, message)
    \/ \E reply \in ToolReplies : InvokeCallReturns(reply)

ToolboxSpec == ToolboxInit /\ [][ToolboxNext]_vars

(***************************************************************************)
(* Claims about Toolbox (under ToolboxSpec)                                *)
(***************************************************************************)
\* the names of the tools registered so far
RegisteredNames == {added[i] : i \in 1..Len(added)}

\* C8: invoke with a name that no registered tool has returns the not-found
\* outcome and calls no tool.
C8_ToolNotFound ==
    (invoked.some /\ invoked.v.name \notin RegisteredNames)
    => /\ invoke_result = [kind |-> "NotFound"]
       /\ tpc = "idle"
       /\ tool_call_log = <<>>

\* C9: a completed invoke with the name of a registered tool has called that
\* tool once, with the given message, and returned the text the call produced.
C9_RegistryDispatch ==
    (invoked.some /\ invoked.v.name \in RegisteredNames /\ tpc # "in_call")
    => /\ Len(tool_call_log) = 1
       /\ tool_call_log[1].tool = invoked.v.name
       /\ tool_call_log[1].message = invoked.v.message
       /\ tool_call_log[1].reply.some
       /\ invoke_result = [kind |-> "Text", text |-> tool_call_log[1].reply.v.text]

\* C10: after add_tool calls for tools with pairwise distinct names, every
\* registered tool is the one found under its own name.
C10_RegistryMapping ==
    Cardinality(RegisteredNames) = Len(added)
    => \A i \in 1..Len(added) : MapGet(tools, added[i]) = Some(added[i])

(***************************************************************************)
(* Handlers and HandlerService                                             *)
(***************************************************************************)
\* Result::Ok and Result::Err
Ok(v) == [ok |-> TRUE, v |-> v]

Err(e) == [ok |-> FALSE, v |-> e]

\* ToString::to_string: a String of its own is left as it is
to_string(v) == IF v.type = "String" THEN v ELSE [type |-> "String", of |-> v]

\* the extractors: State<S>, and Yaml<T> for two types T
YamlKinds == {"YamlA", "YamlB"}

ExtractorKinds == {"State"} \cup YamlKinds

\* the request texts, and the types each deserializes to
Requests == {"ab", "a", "x"}

Deserializes(kind, req) ==
    \/ kind = "YamlA" /\ req \in {"ab", "a"}
    \/ kind = "YamlB" /\ req \in {"ab"}

\* FromContext::from_context of State<S> and of Yaml<T>
from_context(kind, req, state) ==
    IF kind = "State"
    THEN Ok([type |-> "State", of |-> [state |-> state]])
    ELSE IF Deserializes(kind, req)
         THEN Ok([type |-> kind, of |-> [req |-> req]])
         ELSE Err([type |-> "YamlError", of |-> [req |-> req, ty |-> kind]])

RECURSIVE ExtractAll(_, _, _, _, _, _)
\* a bug Extract could have: a failed extractor does not stop the later ones
ExtractAll(exts, i, req, state, args, runs) ==
    IF i > Len(exts)
    THEN [ok |-> TRUE, args |-> args, runs |-> runs, err |-> NoDecision]
    ELSE LET r == from_context(exts[i], req, state)
             ran == Append(runs, [kind |-> exts[i], req |-> req, state |-> state])
             rest == ExtractAll(exts, i + 1, req, state, Append(args, r.v), ran)
         IN  IF r.ok THEN rest
             ELSE [ok |-> FALSE, args |-> args, runs |-> rest.runs, err |-> r.v]

RECURSIVE Extract(_, _, _, _, _, _)
\* the extractions of Handler::call, from argument i on: each runs on the
\* request and a clone of the state; the first failure returns
Extract(exts, i, req, state, args, runs) ==
    IF i > Len(exts)
    THEN [ok |-> TRUE, args |-> args, runs |-> runs, err |-> NoDecision]
    ELSE LET r == from_context(exts[i], req, state)
             ran == Append(runs, [kind |-> exts[i], req |-> req, state |-> state])
         IN  IF r.ok
             THEN Extract(exts, i + 1, req, state, Append(args, r.v), ran)
             ELSE [ok |-> FALSE, args |-> args, runs |-> ran, err |-> r.v]

\* the wrapped function (fn1 of a PipedFn): its result depends on its
\* arguments only; it always succeeds, always fails, or fails on one argument
F1Modes == {"ok", "err", "by_arg"}

F1(mode, args) ==
    IF \/ mode = "err"
       \/ mode = "by_arg" /\ args[Len(args)].of.req = "ab"
    THEN Err([type |-> "Err1", of |-> [args |-> args]])
    ELSE Ok([type |-> "Res1", of |-> [args |-> args]])

\* fn2 of a PipedFn: infallible (kind "pipe"), or a Result ("pipe_fallible")
F2(kind, mode, res1) ==
    IF kind = "pipe_fallible" /\ mode = "err"
    THEN Err([type |-> "Err2", of |-> [from |-> res1]])
    ELSE Ok([type |-> "Res2", of |-> [from |-> res1]])

\* a bug Fn2Input could have: fn2 is handed a success whatever fn1 returned
Fn2InputSuccess(res1) == Ok(res1.v)

\* what call hands to fn2: res1 as fn1 returned it
Fn2Input(res1) == res1

\* impl_handler::call: the function's result as the handler's
FnResult(res) == IF res.ok THEN Ok(to_string(res.v)) ELSE Err(res.v)

\* PipedFn::call: fn2's result as the handler's
PipeResult(kind, res2) ==
    IF kind = "pipe" THEN Ok(to_string(res2.v))
    ELSE IF res2.ok THEN Ok(to_string(res2.v)) ELSE Err(res2.v)

\* a bug ToolCallResult could have: the handler's error is handed on
ToolCallResultPropagates(h) == IF h.ok THEN Ok(to_string(h.v)) ELSE Err(h.v)

\* Tool::call of HandlerService: both arms of the match return Ok
ToolCallResult(h) == IF h.ok THEN Ok(to_string(h.v)) ELSE Ok(to_string(h.v))

\* a bug CloneState could have: the state is taken, a default is handed on
CloneStateTaken(svc) == "default"

\* self.state.clone()
CloneState(svc) == svc.state

\* the argument lists of a handler: the last argument is describable, which
\* of the extractors only Yaml<T> is
ExtractorLists ==
    {l \in UNION {[1..n -> ExtractorKinds] : n \in 1..MaxArgs} :
        l[Len(l)] \in YamlKinds}

\* Describe::describe of the last argument, and of the result type
DescribeInput(exts) == [format_of |-> exts[Len(exts)]]

DescribeOutput(kind) ==
    [format_of |-> IF kind = "fn" THEN "Res1" ELSE "Res2"]

\* Handler::with_state: HandlerService::new(self, state, input, output)
with_state(handler, state) ==
    [handler |-> handler, state |-> state,
     input_description |-> DescribeInput(handler.extractors),
     output_description |-> DescribeOutput(handler.kind)]

\* the handlers: a function, f1.pipe(f2) with f2 infallible (one argument),
\* and f1.pipe(f2) with f2 returning a Result
Handlers ==
    {[kind |-> "fn", extractors |-> l, f1 |-> m, f2 |-> "ok"] :
        l \in ExtractorLists, m \in F1Modes}
    \cup {[kind |-> "pipe", extractors |-> l, f1 |-> m, f2 |-> "ok"] :
        l \in {x \in ExtractorLists : Len(x) = 1}, m \in F1Modes}
    \cup {[kind |-> "pipe_fallible", extractors |-> l, f1 |-> m, f2 |-> n] :
        l \in ExtractorLists, m \in F1Modes, n \in {"ok", "err"}}

CallIds == 1..MaxCalls

\* a call that has not begun
IdleCall ==
    [pc |-> "idle", req |-> "", handler |-> NoDecision, state |-> "",
     args |-> <<>>, res1 |-> NoDecision, result |-> NoDecision,
     ext_runs |-> <<>>, fn1_runs |-> <<>>, fn2_runs |-> <<>>]

HandlerInit ==
    /\ overflow_checks = FALSE
    /\ text = <<>>
    /\ ppc = "off"
    /\ decision = NoDecision
    /\ AgentIdle
    /\ ToolboxIdle
    /\ service \in {with_state(h, "s0") : h \in Handlers}
    /\ calls = [c \in CallIds |-> IdleCall]

\* Tool::call begins: the handler and the state are cloned, Handler::call
\* runs the extractors, and one of them fails
CallExtractionFails(c, req) ==
    /\ calls[c].pc = "idle"
    /\ LET handler == service.handler
           state == CloneState(service)
           e == Extract(handler.extractors, 1, req, state, <<>>, <<>>)
       IN  /\ ~e.ok
           /\ calls' = [calls EXCEPT ![c] =
                  [@ EXCEPT !.pc = "done", !.req = req, !.handler = handler,
                            !.state = state, !.ext_runs = e.runs,
                            !.result = ToolCallResult(Ok(to_string(e.err)))]]
    /\ UNCHANGED <<overflow_checks, parser_vars, config_vars, run_vars,
                   toolbox_vars, service>>

\* Tool::call begins, every extraction succeeds and the function is called
CallInvokesFn1(c, req) ==
    /\ calls[c].pc = "idle"
    /\ LET handler == service.handler
           state == CloneState(service)
           e == Extract(handler.extractors, 1, req, state, <<>>, <<>>)
       IN  /\ e.ok
           /\ calls' = [calls EXCEPT ![c] =
                  [@ EXCEPT !.pc = "fn1", !.req = req, !.handler = handler,
                            !.state = state, !.ext_runs = e.runs,
                            !.args = e.args,
                            !.fn1_runs = Append(@, e.args)]]
    /\ UNCHANGED <<overflow_checks, parser_vars, config_vars, run_vars,
                   toolbox_vars, service>>

\* impl_handler::call: the function returns, and so does Tool::call
FnReturns(c) ==
    /\ calls[c].pc = "fn1"
    /\ calls[c].handler.kind = "fn"
    /\ calls' = [calls EXCEPT ![c] =
           [@ EXCEPT !.pc = "done",
                     !.result = ToolCallResult(
                                    FnResult(F1(calls[c].handler.f1,
                                                calls[c].args)))]]
    /\ UNCHANGED <<overflow_checks, parser_vars, config_vars, run_vars,
                   toolbox_vars, service>>

\* PipedFn::call: fn1 returns res1 and fn2 is called with it
PipeFn1Returns(c) ==
    /\ calls[c].pc = "fn1"
    /\ calls[c].handler.kind \in {"pipe", "pipe_fallible"}
    /\ LET res1 == F1(calls[c].handler.f1, calls[c].args)
       IN  calls' = [calls EXCEPT ![c] =
               [@ EXCEPT !.pc = "fn2", !.res1 = res1,
                         !.fn2_runs = Append(@, Fn2Input(res1))]]
    /\ UNCHANGED <<overflow_checks, parser_vars, config_vars, run_vars,
                   toolbox_vars, service>>

\* PipedFn::call: fn2 returns, and so does Tool::call
PipeFn2Returns(c) ==
    /\ calls[c].pc = "fn2"
    /\ LET h == calls[c].handler
           res2 == F2(h.kind, h.f2, calls[c].fn2_runs[Len(calls[c].fn2_runs)])
       IN  calls' = [calls EXCEPT ![c] =
               [@ EXCEPT !.pc = "done",
                         !.result = ToolCallResult(PipeResult(h.kind, res2))]]
    /\ UNCHANGED <<overflow_checks, parser_vars, config_vars, run_vars,
                   toolbox_vars, service>>

HandlerNext ==
    \/ \E c \in CallIds, req \in Requests : CallExtractionFails(c, req)
    \/ \E c \in CallIds, req \in Requests : CallInvokesFn1(c, req)
    \/ \E c \in CallIds : FnReturns(c)
    \/ \E c \in CallIds : PipeFn1Returns(c)
    \/ \E c \in CallIds : PipeFn2Returns(c)

HandlerSpec == HandlerInit /\ [][HandlerNext]_vars

(***************************************************************************)
(* Claims about handlers and HandlerService                                *)
(***************************************************************************)
PipeKinds == {"pipe", "pipe_fallible"}

\* extractor kind on request req yields a value
Succeeds(kind, req) == kind = "State" \/ Deserializes(kind, req)

ExtractionSucceeds(exts, req) ==
    \A i \in 1..Len(exts) : Succeeds(exts[i], req)

\* the first argument whose extraction fails
FirstFailing(exts, req) ==
    CHOOSE j \in 1..Len(exts) :
        /\ ~Succeeds(exts[j], req)
        /\ \A i \in 1..(j - 1) : Succeeds(exts[i], req)

\* the values the extractors yield on req under state
ArgsOf(exts, req, state) ==
    [i \in 1..Len(exts) |-> from_context(exts[i], req, state).v]

\* C11: in a call of a piped handler whose extraction succeeded, f1 has run
\* once on the extracted arguments before f2 runs; f2 runs once, on the very
\* result f1 produced (its failure when f1 failed, its success when f1
\* succeeded); and the call's output is the string form of f2's result.
C11_PipeRecovery ==
    \A c \in CallIds :
        LET k == calls[c]
            h == service.handler
            args == ArgsOf(h.extractors, k.req, service.state)
            res1 == F1(h.f1, args)
            res2 == F2(h.kind, h.f2, res1)
        IN  (k.pc # "idle" /\ h.kind \in PipeKinds
                /\ ExtractionSucceeds(h.extractors, k.req)) =>
            /\ k.fn1_runs = <<args>>
            /\ k.pc = "fn1" => k.fn2_runs = <<>>
            /\ k.pc \in {"fn2", "done"} =>
                  /\ k.fn2_runs = <<res1>>
                  /\ k.fn2_runs[1].ok = res1.ok
            /\ k.pc = "done" => k.result = Ok(to_string(res2.v))

\* a finished call of a fallible pipe in which f1 failed and f2 recovered
C11_Witness ==
    \E c \in CallIds :
        /\ calls[c].pc = "done"
        /\ service.handler.kind = "pipe_fallible"
        /\ Len(calls[c].fn2_runs) = 1
        /\ ~calls[c].fn2_runs[1].ok
        /\ calls[c].fn2_runs[1].v.type = "Err1"
        /\ calls[c].result.v.of.type = "Res2"

\* C12: the extractors of a call run in argument order, each on the call's
\* request text and the service's state; when one fails, none after it runs,
\* neither the wrapped function nor a piped second function is invoked, and
\* the call has completed with success, its text being the failure's string.
C12_ExtractionShortCircuits ==
    \A c \in CallIds :
        LET k == calls[c]
            exts == service.handler.extractors
        IN  k.pc # "idle" =>
            IF ExtractionSucceeds(exts, k.req)
            THEN k.ext_runs = [i \in 1..Len(exts) |->
                     [kind |-> exts[i], req |-> k.req,
                      state |-> service.state]]
            ELSE LET j == FirstFailing(exts, k.req)
                 IN  /\ k.ext_runs = [i \in 1..j |->
                            [kind |-> exts[i], req |-> k.req,
                             state |-> service.state]]
                     /\ k.fn1_runs = <<>>
                     /\ k.fn2_runs = <<>>
                     /\ k.pc = "done"
                     /\ k.result =
                            Ok([type |-> "String",
                                of |-> [type |-> "YamlError",
                                        of |-> [req |-> k.req,
                                                ty |-> exts[j]]]])

\* a finished call whose first of two extractors failed
C12_Witness ==
    \E c \in CallIds :
        /\ calls[c].pc = "done"
        /\ Len(service.handler.extractors) = 2
        /\ ~Succeeds(service.handler.extractors[1], calls[c].req)
        /\ Len(calls[c].ext_runs) = 1
        /\ calls[c].result.v.of.type = "YamlError"

\* the text a finished call carries comes from a failure
FromFailure(k) == k.result.v.of.type \in {"Err1", "Err2", "YamlError"}

ResultAlone(svc, req) ==
    LET h == svc.handler
        e == Extract(h.extractors, 1, req, svc.state, <<>>, <<>>)
        res1 == F1(h.f1, e.args)
    IN  IF ~e.ok THEN Ok(to_string(e.err))
        ELSE IF h.kind = "fn" THEN ToolCallResult(FnResult(res1))
        ELSE ToolCallResult(PipeResult(h.kind, F2(h.kind, h.f2, res1)))

\* every call works on a clone of the service's handler and state, and a
\* finished call has the result it would have had alone
CallsIndependent ==
    \A c \in CallIds :
        /\ calls[c].pc # "idle" =>
              /\ calls[c].handler = service.handler
              /\ calls[c].state = service.state
        /\ calls[c].pc = "done" =>
              calls[c].result = ResultAlone(service, calls[c].req)

\* no step of a call changes the service
ServiceUnchanged ==
    /\ service'.state = service.state
    /\ service'.handler = service.handler
    /\ service'.input_description = service.input_description
    /\ service'.output_description = service.output_description

\* C18: a call works on clones of the handler and of the bound state and
\* changes neither the service's state nor its descriptions, so in every
\* interleaving of calls on one service each finished call has the result it
\* would give alone on its request text.
C18_ServiceStateless == []CallsIndependent /\ [][ServiceUnchanged]_vars

\* two calls with different requests overlap: one has finished while the
\* other, begun before, is still between its two functions
C18_Witness ==
    /\ calls[1].pc = "fn2"
    /\ calls[2].pc = "done"
    /\ calls[1].req # calls[2].req
    /\ "State" \in {service.handler.extractors[i] :
                       i \in 1..Len(service.handler.extractors)}
    /\ calls[2].result = ResultAlone(service, calls[2].req)

(***************************************************************************)
(* Claims about the rounds of Agent::run (under Spec)                      *)
(***************************************************************************)
\* what take_next_step made of the executor's response of round e
PlanOf(e) == e.parsed

\* round e parsed to an Action and its tool invocation returned an observation
CompletedActionRound(e) ==
    /\ PlanOf(e).kind = "Action"
    /\ e.tool.some
    /\ e.tool.v.ok

\* round e failed: in the executor, in the parser, or in the tool invocation
RoundFailed(e) ==
    \/ PlanOf(e).kind \in {"ExecutorError", "NoBody", "ParserError", "Panic"}
    \/ e.tool.some /\ ~e.tool.v.ok

\* how the failure of round e ends run
ErrorOf(e) ==
    CASE PlanOf(e).kind = "ExecutorError" -> [kind |-> "ExecutorError"]
      [] PlanOf(e).kind = "NoBody" -> [kind |-> "NoChoicesReturned"]
      [] PlanOf(e).kind \in {"ParserError", "Panic"} -> PlanOf(e)
      [] OTHER -> [kind |-> "ToolError"]

RECURSIVE StepsOf(_)
\* one step per completed Action round of the log, in round order, with the
\* round's action and the observation its tool invocation returned
StepsOf(log) ==
    IF log = <<>> THEN <<>>
    ELSE LET e == log[Len(log)]
             before == StepsOf(SubSeq(log, 1, Len(log) - 1))
         IN  IF CompletedActionRound(e)
             THEN Append(before, [action |-> PlanOf(e),
                                  observation |-> e.tool.v.observation])
             ELSE before

\* the transcript is the steps of the rounds so far; a returned Finish comes
\* with the whole transcript, one step per earlier round
C14_Transcript ==
    /\ intermediate_steps = StepsOf(round_log)
    /\ outcome.kind = "Finish" =>
          /\ outcome.finish = PlanOf(round_log[Len(round_log)])
          /\ outcome.intermediate_steps = StepsOf(round_log)
          /\ Len(outcome.intermediate_steps) = Len(round_log) - 1

\* the transcript changes only by one step appended when a tool returns
C14_Step ==
    \/ intermediate_steps' = intermediate_steps
    \/ /\ rpc = "await_tool"
       /\ Len(intermediate_steps') = Len(intermediate_steps) + 1
       /\ SubSeq(intermediate_steps', 1, Len(intermediate_steps))
              = intermediate_steps

\* C14: during a run the transcript changes only by appending one step at its
\* end after an Action round; no step is removed, changed or reordered; a
\* round that parses to Finish makes run return that Finish with the whole
\* transcript: one step per earlier Action round, in round order, each with
\* the observation its tool invocation returned.
C14_AppendOnly == []C14_Transcript /\ [][C14_Step]_vars

\* run returned a Finish after two Action rounds with different steps
C14_Witness ==
    /\ outcome.kind = "Finish"
    /\ Len(outcome.intermediate_steps) = 2
    /\ outcome.intermediate_steps[1] # outcome.intermediate_steps[2]
    /\ outcome.intermediate_steps[1].observation
           = round_log[1].tool.v.observation

\* C15: a round that fails (the executor errs, the completion has no body,
\* the plan does not parse, the tool invocation reports an error) is the last
\* round of the run: run has ended with that round's error, no planning call
\* and no tool call was made after it, and a round whose plan did not parse
\* invoked no tool.
C15_ErrorsEndTheRun ==
    /\ \A i \in 1..(Len(round_log) - 1) : CompletedActionRound(round_log[i])
    /\ Len(round_log) > 0 =>
          LET last == round_log[Len(round_log)]
          IN  RoundFailed(last) =>
                  /\ rpc = "done"
                  /\ outcome = ErrorOf(last)
                  /\ plan_calls = Len(round_log)
                  /\ llm_calls = Len(round_log)
                  /\ tool_calls = Len(round_log)
                         - (IF PlanOf(last).kind = "Action" THEN 0 ELSE 1)
                  /\ PlanOf(last).kind \in {"ParserError", "Panic"}
                         => ~last.tool.some

\* the second round's plan did not parse: one step, one tool call, two plans
C15_Witness ==
    /\ outcome.kind = "ParserError"
    /\ Len(round_log) = 2
    /\ Len(intermediate_steps) = 1
    /\ tool_calls = 1
    /\ llm_calls = 2

\* C16: with max_iterations unset the number of completed rounds does not
\* change should_continue; with max_time_elapsed_seconds unset the elapsed
\* time does not; with both unset should_continue is true, and run never
\* ends with RuntimeExceeded; RuntimeExceeded is caused by a bound that is set.
C16_UnsetBoundNeverStops ==
    /\ ~max_iterations.some =>
          \A i \in 0..(MaxRounds + 1), t \in 0..(MaxClock + 1) :
              should_continue(i, t) = should_continue(0, t)
    /\ ~max_time_elapsed_seconds.some =>
          \A i \in 0..(MaxRounds + 1), t \in 0..(MaxClock + 1) :
              should_continue(i, t) = should_continue(i, 0)
    /\ (~max_iterations.some /\ ~max_time_elapsed_seconds.some) =>
          /\ \A i \in 0..(MaxRounds + 1), t \in 0..(MaxClock + 1) :
                 should_continue(i, t)
          /\ outcome.kind # "RuntimeExceeded"
    /\ outcome.kind = "RuntimeExceeded" =>
          \/ /\ max_iterations.some
             /\ outcome.iterations_elapsed > max_iterations.v
          \/ /\ max_time_elapsed_seconds.some
             /\ outcome.time_elapsed_seconds > max_time_elapsed_seconds.v

\* with neither bound set, the loop is entered after every round the model
\* follows, time having passed
C16_Witness ==
    /\ ~max_iterations.some
    /\ ~max_time_elapsed_seconds.some
    /\ rpc = "loop"
    /\ iterations >= 2
    /\ full_duration >= 1
    /\ should_continue(iterations, full_duration)

\* executor calls and tool invocations not yet answered
LLMInFlight == llm_calls - Len(round_log)

ToolsInFlight ==
    tool_calls - Cardinality({i \in 1..Len(round_log) : round_log[i].tool.some})

\* C17: at most one planning call is in flight, and none while a tool is
\* invoked; every round makes one executor call and then at most one tool
\* invocation; while the plan of a round is awaited, the tool invocation of
\* every earlier round has completed and its step is in the transcript, and
\* the round's prompt ends with the observation of the round before.
C17_RoundsSequential ==
    /\ LLMInFlight \in {0, 1}
    /\ ToolsInFlight \in {0, 1}
    /\ LLMInFlight + ToolsInFlight <= 1
    /\ tool_calls <= llm_calls
    /\ llm_calls <= plan_calls
    /\ \A i \in 1..Len(round_log) :
           round_log[i].tool.some => PlanOf(round_log[i]).kind = "Action"
    /\ LLMInFlight = 1 =>
          /\ llm_calls = Len(intermediate_steps) + 1
          /\ tool_calls = Len(intermediate_steps)
          /\ \A i \in 1..Len(round_log) : CompletedActionRound(round_log[i])
          /\ intermediate_steps # <<>> =>
                LET n == Len(intermediate_steps)
                    piece == ScratchpadPiece(
                                 [action |-> PlanOf(round_log[n]),
                                  observation |->
                                      round_log[n].tool.v.observation])
                IN  /\ Len(scratchpad) >= Len(piece)
                    /\ SubSeq(scratchpad, Len(scratchpad) - Len(piece) + 1,
                              Len(scratchpad)) = piece
    /\ ToolsInFlight = 1 =>
          /\ tool_calls = Len(intermediate_steps) + 1
          /\ llm_calls = tool_calls

\* the plan of the third round is awaited: two tool invocations have completed
\* and the prompt carries the second one's observation
C17_Witness ==
    /\ LLMInFlight = 1
    /\ llm_calls = 3
    /\ tool_calls = 2
    /\ Len(intermediate_steps) = 2
    /\ intermediate_steps[2].observation = StringValue(<<"P">>)
    /\ intermediate_steps[1].observation = OtherValue

\* C20: whenever run evaluates the early-stopping policy, the iteration
\* counter is the number of planning rounds completed and the length of the
\* transcript; and the iterations_elapsed of a RuntimeExceeded is the number
\* of planning calls made in the run and the number of tool invocations made.
C20_CountersMatch ==
    /\ rpc = "loop" =>
          /\ iterations = Len(round_log)
          /\ iterations = plan_calls
          /\ iterations = Len(intermediate_steps)
    /\ outcome.kind = "RuntimeExceeded" =>
          /\ outcome.iterations_elapsed = plan_calls
          /\ outcome.iterations_elapsed = llm_calls
          /\ outcome.iterations_elapsed = tool_calls
          /\ outcome.iterations_elapsed = Len(intermediate_steps)

\* run failed with RuntimeExceeded after two rounds
C20_Witness ==
    /\ outcome.kind = "RuntimeExceeded"
    /\ outcome.iterations_elapsed = 2
    /\ plan_calls = 2
    /\ tool_calls = 2

(***************************************************************************)
(* Claim about the totality of parse (under ParserSpec)                    *)
(***************************************************************************)
\* C19: parse returns an Action, a Finish or a ParserError for every text and
\* never aborts, also when the intermediate-answer marker first occurs before
\* the end of the follow-up marker or multi-byte characters stand before a
\* marker; the tool_input and log of an Action and the output of a Finish
\* are the texts the markers delimit.
C19_ParserTotal ==
    ppc = "parsed" =>
        /\ decision.kind \in {"Action", "Finish", "ParserError"}
        /\ decision.kind = "Action" =>
              /\ decision.log = TextBefore(text, intermediate_answer_prefix)
              /\ decision.tool_input =
                     Trim(SubSeq(text,
                                 FirstPos(text, followup_prefix)
                                     + Len(followup_prefix),
                                 FirstPos(text, intermediate_answer_prefix) - 1))
        /\ decision.kind = "Finish" =>
              \E k \in FinishPresent(text) :
                  decision.output =
                      Trim(TextAfter(text, acceptable_finish_prefixes[k]))

(***************************************************************************)
(* Termination of Agent::run (under FairSpec)                              *)
(***************************************************************************)
\* run's own steps are taken, every executor call returns and every tool
\* invocation returns
FairSpec ==
    /\ Spec
    /\ WF_vars(BeginRound \/ PromptFails \/ StopEarly)
    /\ WF_vars(\E resp \in LLMResponses :
                   \/ PlanFails(resp)
                   \/ PlanDoesNotParse(resp)
                   \/ PlanIsAction(resp)
                   \/ PlanIsFinish(resp))
    /\ WF_vars(\E r \in ToolInvokeResults : ToolFails(r) \/ ToolReturns(r))

\* the errors a round can end run with
RoundErrors ==
    {"PromptError", "ExecutorError", "NoChoicesReturned", "ParserError",
     "ToolError"}

\* run has ended
Terminated == rpc = "done"

\* with max_iterations set, run ends
TerminatesWhenBounded == max_iterations.some => <>Terminated

\* with max_iterations = N, at most N + 1 planning rounds are made
RoundsBounded == max_iterations.some => plan_calls <= max_iterations.v + 1

\* a run that has ended has returned a Finish with the transcript, a round
\* error, or RuntimeExceeded
ThreeOutcomes ==
    (max_iterations.some /\ Terminated) =>
        \/ /\ outcome.kind = "Finish"
           /\ outcome.intermediate_steps = intermediate_steps
        \/ outcome.kind \in RoundErrors
        \/ outcome.kind = "RuntimeExceeded"

\* C21: with max_iterations set and every executor call and tool invocation
\* returning, run terminates, whatever texts the model produces; it ends in
\* one of three outcomes, a Finish with the transcript, a round error or
\* RuntimeExceeded; and the number of planning rounds is bounded by a
\* function of max_iterations alone.
C21_BoundedTermination ==
    /\ TerminatesWhenBounded
    /\ []RoundsBounded
    /\ []ThreeOutcomes

====
